---------------------------- MODULE Spec2Model ----------------------------
(***************************************************************************)
(* Model of the download orchestrator of ECMWFDownloader (src/main.py):    *)
(* download_files (the batch), download_with_progress (one task per        *)
(* record behind an asyncio.Semaphore) and download_file (one transfer).   *)
(*                                                                         *)
(* The program runs on one asyncio event loop, so a step of the model is   *)
(* the code a coroutine runs between two suspension points (await).  The   *)
(* suspension points of a transfer task are: the semaphore acquire, the    *)
(* await of the response of session.get, and the await of every chunk of   *)
(* the body.  The transport and the filesystem are the environment: their  *)
(* answers are drawn with \E.                                              *)
(*                                                                         *)
(* The listing calls (list_available_files with _parse_data_files, and     *)
(* list_available_configurations) have their own specification, ListSpec:  *)
(* one call on a downloader, with the date, the base address, the          *)
(* transport's answer and the listing document as inputs.  FairSpec is     *)
(* download_files under a fair event loop.  RepeatSpec is one downloader  *)
(* on which several listing calls and one download_files call follow each  *)
(* other.                                                                  *)
(***************************************************************************)
EXTENDS Integers, Sequences, FiniteSets, TLC

\* ---------------------------------------------------------------- bounds
MaxFiles == 2      \* longest batch handed to download_files
MaxLimit == 2      \* largest concurrency limit (argument and configuration)
NumNames == 2      \* distinct values of file_info['filename']
MaxBody  == 1      \* longest response body, in bytes
chunk_size == 1    \* config.chunk_size, scaled down
MaxEntries == 2    \* most anchors of a listing document
MaxCalls == 3      \* most listing calls on one downloader

NoTotal == 0 - 1   \* total=None of progress.add_task

\* config.max_concurrent_downloads, fixed when the downloader is built
max_concurrent_downloads == MaxLimit

\* a batch is the listing of one date: _parse_data_files gives every record
\* of a listing the same 'date'
Dates == {"20250617"}
Names == 1..NumNames
FileInfos == [date : Dates, filename : Names]

\* HTTP statuses a file fetch can hand to the caller: success, a 3xx that is
\* not followed as a redirect, a client error.
Statuses == {200, 300, 404}

VARIABLES
    files,            \* the records handed to download_files
    max_concurrent,   \* the argument: <<>> is None, <<n>> is the integer n
    main,             \* position of download_files
    semaphore,        \* <<>> before it is created, <<value>> after
    progress,         \* the tasks of the Progress object: task_id -> fields
    progressOpen,     \* a Progress object was created
    pc,               \* position of each download_with_progress task
    download_results, \* what gather collects for each task
    results,          \* the dictionary download_files returns
    total_size,       \* local of download_file
    downloaded,       \* local of download_file
    fd,               \* the file object f of download_file
    status,           \* response.status of the open response, 0 without one
    cause,            \* how the environment ended each transfer
    attempts,         \* number of calls of download_file per record
    dirs,             \* the date directories that exist under output_dir
    fs,               \* the files under output_dir, by (date, filename)
    io,               \* which collaborators were called so far
    op,               \* the listing call: "files" or "configurations"
    date,             \* its argument date, a sequence of characters
    base_url,         \* config.base_url, a sequence of tokens
    lpc,              \* position of the listing call
    requests,         \* the addresses requested from the transport, in order
    answer,           \* how the transport answered the listing request
    html_content,     \* the document response.text() gave, << >> before
    parser_calls,     \* number of calls of _parse_data_files
    listed,           \* what the listing call returned
    error,            \* the error the listing call raised, "none" without
    calls,            \* the listing calls made on the downloader so far
    first,            \* << >>, or the first call that parsed and its outcome
    page_entries      \* the entries the server puts into one document

\* the state of the download orchestrator and of the listing calls
dvars == << files, max_concurrent, main, semaphore,
            progress, progressOpen, pc, download_results, results, total_size,
            downloaded, fd, status, cause, attempts, dirs, fs, io >>

lvars == << op, date, base_url, lpc, requests, answer, html_content,
            parser_calls, listed, error >>

\* the calls made on one downloader, one after the other
hvars == << calls, first, page_entries >>

vars == << dvars, lvars, hvars >>

Recs == 1..Len(files)

\* ------------------------------------------------------------ filesystem
NoFile == [exists |-> FALSE, data |-> << >>]

\* output_path = self.config.output_dir / file_info['date'] / filename
output_path(r) == files[r]

\* open(output_path, 'wb'): creates the file or truncates the one there
OpenWb(f, p) == [f EXCEPT ![p] = [exists |-> TRUE, data |-> << >>]]

\* f.write(chunk) at the position of the file object: n bytes of record r
\* written at offset off; a gap left by a truncation reads as 0
WriteAt(data, off, n, r) ==
    [i \in 1..(IF Len(data) > off + n THEN Len(data) ELSE off + n) |->
        IF i > off /\ i <= off + n THEN r
        ELSE IF i <= Len(data) THEN data[i] ELSE 0]

\* output_path.unlink()
Unlink(f, p) == [f EXCEPT ![p] = NoFile]

\* the bytes a complete download of record r with n bytes leaves
Complete(r, n) == [exists |-> TRUE, data |-> [i \in 1..n |-> r]]

\* ------------------------------------------------------------------ Init
\* the filenames of a batch up to renaming: the first record has name 1 and
\* a record has a name of an earlier record or the next unused one
Canonical(fl) ==
    \A i \in 1..Len(fl) :
        \/ fl[i].filename = 1
        \/ \E j \in 1..(i - 1) : fl[j].filename >= fl[i].filename - 1

\* what an earlier run left at a destination: the output directory is
\* either new or holds an old copy of every file
OldFile == [exists |-> TRUE, data |-> <<0>>]

\* one call is made on the downloader; a document has up to MaxEntries
\* entries
SingleCall ==
    /\ calls = 1
    /\ first = << >>
    /\ page_entries = MaxEntries

\* no listing call is made: download_files gets its records as an argument
ListingIdle ==
    /\ op = "files"
    /\ date = << >>
    /\ base_url = << >>
    /\ lpc = "idle"
    /\ requests = << >>
    /\ answer = "none"
    /\ html_content = << >>
    /\ parser_calls = 0
    /\ listed = << >>
    /\ error = "none"
    /\ SingleCall

\* a downloader and the batch download_files is called with
DownloadInit ==
    /\ files \in UNION { [1..n -> FileInfos] : n \in 0..MaxFiles }
    /\ Canonical(files)
    /\ max_concurrent \in { << >> } \cup { <<n>> : n \in (0 - 1)..MaxLimit }
    /\ main = "idle"
    /\ semaphore = << >>
    /\ progress = << >>
    /\ progressOpen = FALSE
    /\ pc = [r \in Recs |-> "unborn"]
    /\ download_results = [r \in Recs |-> "none"]
    /\ results = [success |-> 0, failed |-> 0]
    /\ total_size = [r \in Recs |-> 0]
    /\ downloaded = [r \in Recs |-> 0]
    /\ fd = [r \in Recs |-> "closed"]
    /\ status = [r \in Recs |-> 0]
    /\ cause = [r \in Recs |-> "none"]
    /\ attempts = [r \in Recs |-> 0]
    /\ \/ dirs = {} /\ fs = [p \in FileInfos |-> NoFile]
       \/ dirs = Dates /\ fs = [p \in FileInfos |-> OldFile]
    /\ io = [get |-> FALSE, fsop |-> FALSE, acquire |-> FALSE]

Init == ListingIdle /\ DownloadInit


\* ------------------------------------------------------- the admission gate
\* mutant: only an omitted argument gets the configured limit
EffectiveLimitOfNone(arg, cfg) == IF arg = << >> THEN cfg ELSE arg[1]

\* max_concurrent = max_concurrent or self.config.max_concurrent_downloads
EffectiveLimit(arg, cfg) ==
    IF arg = << >> \/ arg[1] = 0 THEN cfg ELSE arg[1]

\* mutant: a gate that admits whatever its value is
CanAcquireUnbounded(sem) == sem # << >>

\* asyncio.Semaphore.acquire returns at once exactly when a permit is free
CanAcquire(sem) == sem # << >> /\ sem[1] > 0

Acquire(sem) == << sem[1] - 1 >>

\* mutant: leaving the semaphore gives no permit back
ReleaseLost(sem) == sem

\* Semaphore.release(), at the exit of "async with semaphore"
Release(sem) == << sem[1] + 1 >>

\* waiters of an asyncio.Semaphore are woken first-in first-out, and gather
\* schedules the tasks in the order of the records
NextPending(r) ==
    /\ pc[r] = "pending"
    /\ \A q \in Recs : q < r => pc[q] # "pending"

\* -------------------------------------------------------- progress signals
add_task(pg, r) ==
    [t \in DOMAIN pg \cup {r} |->
        IF t = r THEN [total |-> NoTotal, completed |-> 0] ELSE pg[t]]

remove_task(pg, r) == [t \in DOMAIN pg \ {r} |-> pg[t]]

\* if total_size > 0: progress.update(task_id, total=total_size)
update_total(pg, r, n) ==
    IF n > 0 THEN [pg EXCEPT ![r].total = n] ELSE pg

\* if total_size > 0: progress.update(task_id, completed=downloaded)
update_completed(pg, r, tot, done) ==
    IF tot > 0 THEN [pg EXCEPT ![r].completed = done] ELSE pg

\* ------------------------------------------------------------- transport
\* response.raise_for_status() of aiohttp raises for a status of 400 or more
raise_for_status(s) == s >= 400

\* ------------------------------------------------------------ aggregation
\* mutant: gather without return_exceptions, done at the first exception
GatherFailFast(dr) ==
    \/ \A r \in DOMAIN dr : dr[r] # "none"
    \/ \E r \in DOMAIN dr : dr[r] = "exc"

\* asyncio.gather(*tasks, return_exceptions=True) completes when every task
\* has a result or an exception
GatherDone(dr) == \A r \in DOMAIN dr : dr[r] # "none"

\* if isinstance(result, bool) and result: results['success'] += 1
CountSuccess(dr) == Cardinality({ r \in DOMAIN dr : dr[r] = "true" })

\* mutant: only a returned False is counted, a raised error is dropped
CountFailedReturnedOnly(dr) ==
    Cardinality({ r \in DOMAIN dr : dr[r] = "false" })

\* else: results['failed'] += 1
CountFailed(dr) == Cardinality({ r \in DOMAIN dr : dr[r] # "true" })

\* ------------------------------------------------- the ways a transfer ends
\* mutant: the handler leaves the file where it is
ExceptCleanupKeepsFile(f, p) == f

\* except Exception: if output_path.exists(): output_path.unlink()
ExceptCleanup(f, p) == IF f[p].exists THEN Unlink(f, p) ELSE f

\* file objects of other transfers that have the unlinked file open keep
\* writing to a file that has no name any more
AfterUnlink(r) ==
    [q \in Recs |->
        IF q = r THEN "closed"
        ELSE IF fd[q] = "open" /\ output_path(q) = output_path(r)
                /\ ExceptCleanup(fs, output_path(r)) # fs
             THEN "orphan" ELSE fd[q]]

\* the locals of download_file and the response are gone when it is left
DropLocals(r) ==
    /\ total_size' = [total_size EXCEPT ![r] = 0]
    /\ downloaded' = [downloaded EXCEPT ![r] = 0]
    /\ status' = [status EXCEPT ![r] = 0]

\* lines 203-207, 231-232: download_file catches the error, cleans up and
\* returns False; download_with_progress removes the progress task and
\* leaves the semaphore
EndFalse(r, c, sem, pg) ==
    /\ fs' = ExceptCleanup(fs, output_path(r))
    /\ fd' = AfterUnlink(r)
    /\ progress' = remove_task(pg, r)
    /\ semaphore' = Release(sem)
    /\ download_results' = [download_results EXCEPT ![r] = "false"]
    /\ cause' = [cause EXCEPT ![r] = c]
    /\ pc' = [pc EXCEPT ![r] = "done"]
    /\ DropLocals(r)

\* mutant: an error of one task ends the tasks that wait at the gate
EndRaiseAbortsPending(r, c, sem, pg) ==
    /\ fd' = [fd EXCEPT ![r] = "closed"]
    /\ progress' = pg
    /\ semaphore' = Release(sem)
    /\ download_results' =
          [q \in Recs |-> IF q = r \/ pc[q] = "pending" THEN "exc"
                          ELSE download_results[q]]
    /\ cause' = [cause EXCEPT ![r] = c]
    /\ pc' = [q \in Recs |-> IF q = r \/ pc[q] = "pending" THEN "done"
                             ELSE pc[q]]
    /\ total_size' = [total_size EXCEPT ![r] = 0]
    /\ downloaded' = [downloaded EXCEPT ![r] = 0]
    /\ status' = [status EXCEPT ![r] = 0]

\* mutant: a task that ends by an exception keeps its permit
EndRaiseKeepsPermit(r, c, sem, pg) ==
    /\ fd' = [fd EXCEPT ![r] = "closed"]
    /\ progress' = pg
    /\ semaphore' = sem
    /\ download_results' = [download_results EXCEPT ![r] = "exc"]
    /\ cause' = [cause EXCEPT ![r] = c]
    /\ pc' = [pc EXCEPT ![r] = "done"]
    /\ DropLocals(r)

\* an error leaves download_file: line 231 is skipped, the semaphore is
\* released by its context manager, gather keeps the exception
EndRaise(r, c, sem, pg) ==
    /\ fd' = [fd EXCEPT ![r] = "closed"]
    /\ progress' = pg
    /\ semaphore' = Release(sem)
    /\ download_results' = [download_results EXCEPT ![r] = "exc"]
    /\ cause' = [cause EXCEPT ![r] = c]
    /\ pc' = [pc EXCEPT ![r] = "done"]
    /\ DropLocals(r)

\* ----------------------------------------------------------- download_files
\* mutant: no early return for an empty batch
CallWithoutEmptyCheck ==
    /\ main = "idle"
    /\ max_concurrent' =
          << EffectiveLimit(max_concurrent, max_concurrent_downloads) >>
    /\ IF max_concurrent'[1] < 0
       THEN /\ main' = "raised"
            /\ UNCHANGED << semaphore, progressOpen, pc >>
       ELSE /\ semaphore' = max_concurrent'
            /\ progressOpen' = TRUE
            /\ pc' = [r \in Recs |-> "pending"]
            /\ main' = "gathering"
    /\ results' = [success |-> 0, failed |-> 0]
    /\ UNCHANGED << hvars, lvars, files, progress,
                    download_results, total_size, downloaded, fd, status,
                    cause, attempts, dirs, fs, io >>

\* lines 211-235: the call up to the await of gather
Call ==
    /\ main = "idle"
    /\ IF files = << >>
       THEN /\ main' = "returned"
            /\ UNCHANGED << max_concurrent, semaphore, progressOpen, pc >>
       ELSE /\ max_concurrent' =
                << EffectiveLimit(max_concurrent, max_concurrent_downloads) >>
            /\ IF max_concurrent'[1] < 0
               THEN /\ main' = "raised"
                    /\ UNCHANGED << semaphore, progressOpen, pc >>
               ELSE /\ semaphore' = max_concurrent'
                    /\ progressOpen' = TRUE
                    /\ pc' = [r \in Recs |-> "pending"]
                    /\ main' = "gathering"
    /\ results' = [success |-> 0, failed |-> 0]
    /\ UNCHANGED << hvars, lvars, files, progress,
                    download_results, total_size, downloaded, fd, status,
                    cause, attempts, dirs, fs, io >>

\* lines 237-243: gather has every result, the outcomes are counted
Return ==
    /\ main = "gathering"
    /\ GatherDone(download_results)
    /\ results' = [success |-> CountSuccess(download_results),
                   failed  |-> CountFailed(download_results)]
    /\ main' = "returned"
    /\ UNCHANGED << hvars, lvars, files, max_concurrent, semaphore,
                    progress, progressOpen, pc, download_results, total_size,
                    downloaded, fd, status, cause, attempts, dirs, fs, io >>

\* --------------------------------------------------- download_with_progress
\* lines 228-230 and 177-185: a permit is taken, the progress task is added,
\* download_file makes the directory and issues the request
Start(r) ==
    /\ main = "gathering"
    /\ NextPending(r)
    /\ CanAcquire(semaphore)
    /\ semaphore' = Acquire(semaphore)
    /\ progress' = add_task(progress, r)
    /\ attempts' = [attempts EXCEPT ![r] = @ + 1]
    /\ dirs' = dirs \cup { output_path(r).date }
    /\ io' = [get |-> TRUE, fsop |-> TRUE, acquire |-> TRUE]
    /\ pc' = [pc EXCEPT ![r] = "requesting"]
    /\ UNCHANGED << hvars, lvars, files, max_concurrent, main,
                    progressOpen, download_results, results, total_size,
                    downloaded, fd, status, cause, fs >>

\* line 182 raises (the directory is missing and cannot be made): the error
\* is outside the try block and leaves download_file
StartMkdirFails(r) ==
    /\ main = "gathering"
    /\ NextPending(r)
    /\ CanAcquire(semaphore)
    /\ output_path(r).date \notin dirs
    /\ attempts' = [attempts EXCEPT ![r] = @ + 1]
    /\ io' = [io EXCEPT !.acquire = TRUE, !.fsop = TRUE]
    /\ EndRaise(r, "mkdir", Acquire(semaphore), add_task(progress, r))
    /\ UNCHANGED << hvars, lvars, files, max_concurrent, main,
                    progressOpen, results, dirs, fs >>

\* ------------------------------------------------------------ download_file
\* line 185 raises: the connection fails or times out before a response
\* (aiohttp.ClientError, asyncio.TimeoutError)
RequestFails(r) ==
    /\ pc[r] = "requesting"
    /\ EndFalse(r, "connect", semaphore, progress)
    /\ UNCHANGED << hvars, lvars, files, max_concurrent, main,
                    progressOpen, results, attempts, dirs, io >>

\* line 186 raises for the status of the response
ResponseRejected(r) ==
    /\ pc[r] = "requesting"
    /\ \E s \in Statuses : raise_for_status(s)
    /\ EndFalse(r, "status", semaphore, progress)
    /\ UNCHANGED << hvars, lvars, files, max_concurrent, main,
                    progressOpen, results, attempts, dirs, io >>

\* the lengths a response can declare: the length of a full body, or 0 for
\* no content-length header: int(response.headers.get('content-length', 0))
Declared == {0, MaxBody}

\* lines 186-194: the status passes, the declared length is read, the file
\* is opened and the first chunk is awaited
ResponseAccepted(r) ==
    /\ pc[r] = "requesting"
    /\ \E s \in Statuses, len \in Declared :
          /\ ~ raise_for_status(s)
          /\ status' = [status EXCEPT ![r] = s]
          /\ total_size' = [total_size EXCEPT ![r] = len]
          /\ progress' = update_total(progress, r, len)
    /\ fs' = OpenWb(fs, output_path(r))
    /\ fd' = [fd EXCEPT ![r] = "open"]
    /\ downloaded' = [downloaded EXCEPT ![r] = 0]
    /\ pc' = [pc EXCEPT ![r] = "streaming"]
    /\ UNCHANGED << hvars, lvars, files, max_concurrent, main,
                    semaphore, progressOpen, download_results, results,
                    cause, attempts, dirs, io >>

\* line 192 raises: the file cannot be opened for writing
OpenFails(r) ==
    /\ pc[r] = "requesting"
    /\ \E s \in Statuses : ~ raise_for_status(s)
    /\ EndFalse(r, "open", semaphore, progress)
    /\ UNCHANGED << hvars, lvars, files, max_concurrent, main,
                    progressOpen, results, attempts, dirs, io >>

\* the chunks the transport can still deliver: a declared length is the
\* length of the body
ChunkLens(r) ==
    { n \in 1..chunk_size :
        downloaded[r] + n <=
            (IF total_size[r] > 0 THEN total_size[r] ELSE MaxBody) }

\* lines 194-198: a chunk arrives, is written and counted
ChunkWritten(r) ==
    /\ pc[r] = "streaming"
    /\ \E n \in ChunkLens(r) :
          /\ fs' = IF fd[r] = "open"
                   THEN [fs EXCEPT ![output_path(r)].data =
                             WriteAt(@, downloaded[r], n, r)]
                   ELSE fs
          /\ downloaded' = [downloaded EXCEPT ![r] = @ + n]
          /\ progress' = update_completed(progress, r, total_size[r],
                                          downloaded[r] + n)
    /\ UNCHANGED << hvars, lvars, files, max_concurrent, main,
                    semaphore, progressOpen, pc, download_results, results,
                    total_size, fd, status, cause, attempts, dirs, io >>

\* line 195 raises: a chunk arrives and the write fails
WriteFails(r) ==
    /\ pc[r] = "streaming"
    /\ ChunkLens(r) # {}
    /\ EndFalse(r, "write", semaphore, progress)
    /\ UNCHANGED << hvars, lvars, files, max_concurrent, main,
                    progressOpen, results, attempts, dirs, io >>

\* line 194 raises: the stream breaks or times out before the body is whole
StreamFails(r) ==
    /\ pc[r] = "streaming"
    /\ EndFalse(r, IF downloaded[r] = 0 THEN "first_chunk" ELSE "mid_stream",
                semaphore, progress)
    /\ UNCHANGED << hvars, lvars, files, max_concurrent, main,
                    progressOpen, results, attempts, dirs, io >>

\* lines 199-201 and 231-232: the body ended, the file is closed,
\* download_file returns True; downloaded is kept as the number of bytes
\* the transport streamed for the record
StreamEnds(r) ==
    /\ pc[r] = "streaming"
    /\ total_size[r] > 0 => downloaded[r] = total_size[r]
    /\ fd' = [fd EXCEPT ![r] = "closed"]
    /\ progress' = remove_task(progress, r)
    /\ semaphore' = Release(semaphore)
    /\ download_results' = [download_results EXCEPT ![r] = "true"]
    /\ cause' = [cause EXCEPT ![r] = "ok"]
    /\ pc' = [pc EXCEPT ![r] = "done"]
    /\ total_size' = [total_size EXCEPT ![r] = 0]
    /\ status' = [status EXCEPT ![r] = 0]
    /\ UNCHANGED << hvars, lvars, files, max_concurrent, main,
                    progressOpen, results, downloaded, attempts, dirs, fs,
                    io >>

\* the task is cancelled while it waits for the transport: CancelledError
\* is not an Exception, so line 203 does not catch it
Cancelled(r) ==
    /\ pc[r] \in {"requesting", "streaming"}
    /\ EndRaise(r, "cancel", semaphore, progress)
    /\ UNCHANGED << hvars, lvars, files, max_concurrent, main,
                    progressOpen, results, attempts, dirs, fs, io >>

Next ==
    \/ Call
    \/ Return
    \/ \E r \in Recs : Start(r)
    \/ \E r \in Recs : StartMkdirFails(r)
    \/ \E r \in Recs : RequestFails(r)
    \/ \E r \in Recs : ResponseRejected(r)
    \/ \E r \in Recs : ResponseAccepted(r)
    \/ \E r \in Recs : OpenFails(r)
    \/ \E r \in Recs : ChunkWritten(r)
    \/ \E r \in Recs : WriteFails(r)
    \/ \E r \in Recs : StreamFails(r)
    \/ \E r \in Recs : StreamEnds(r)
    \/ \E r \in Recs : Cancelled(r)

Spec == Init /\ [][Next]_vars

\* ------------------------------------------------------------ fair scheduling
\* the event loop runs every task that is ready: the task of record r at the
\* gate when a permit is free
Admit(r) == r \in Recs /\ (Start(r) \/ StartMkdirFails(r))

\* the transport answers every await of a started transfer: a response, a
\* chunk, the end of the body, an error, a timeout or a cancellation
Transfer(r) ==
    /\ r \in Recs
    /\ \/ RequestFails(r)
       \/ ResponseRejected(r)
       \/ ResponseAccepted(r)
       \/ OpenFails(r)
       \/ ChunkWritten(r)
       \/ WriteFails(r)
       \/ StreamFails(r)
       \/ StreamEnds(r)
       \/ Cancelled(r)

\* the batches of the fair specification: records of distinct names, a
\* limit that is omitted, 0 or positive (line 215 raises for a negative
\* one), a new output directory (the gate reads neither the names nor the
\* files)
FairInit ==
    /\ Init
    /\ \A i, j \in Recs : i # j => files[i] # files[j]
    /\ max_concurrent = << >> \/ max_concurrent[1] >= 0
    /\ dirs = {}

\* download_files under a fair event loop and a transport that ends every
\* transfer it started: the task of every record takes its next step, at
\* the gate or in its transfer, when it can
FairSpec ==
    /\ FairInit
    /\ [][Next]_vars
    /\ WF_vars(Return)
    /\ \A r \in 1..MaxFiles : WF_vars(Admit(r) \/ Transfer(r))

TypeOK ==
    /\ main \in {"idle", "gathering", "returned", "raised"}
    /\ calls \in 1..MaxCalls
    /\ Len(first) <= 1
    /\ page_entries \in 1..MaxEntries
    /\ \A r \in Recs : pc[r] \in {"unborn", "pending", "requesting", "streaming", "done"}
    /\ \A r \in Recs : download_results[r] \in {"none", "true", "false", "exc"}


\* ================================================================ listings
\* Text is a sequence of tokens: one character each where the code looks at
\* characters (dates, digits, "/", ".", "-", " "), a longer piece of text
\* where it does not ("forecasts", "grib", the scheme and host of a URL).

EndsWith(s, suf) ==
    /\ Len(s) >= Len(suf)
    /\ SubSeq(s, Len(s) - Len(suf) + 1, Len(s)) = suf

\* str.strip(): the text without leading and trailing whitespace
RECURSIVE strip(_)
strip(s) ==
    IF s = << >> THEN s
    ELSE IF Head(s) = " " THEN strip(Tail(s))
    ELSE IF s[Len(s)] = " " THEN strip(SubSeq(s, 1, Len(s) - 1))
    ELSE s

Digits == << "0", "1", "2", "3", "4", "5", "6", "7", "8", "9" >>
IsDigit(c) == \E i \in 1..10 : Digits[i] = c
DigitVal(c) == (CHOOSE i \in 1..10 : Digits[i] = c) - 1

\* the number written by the digits s[i..j]
RECURSIVE NumAt(_, _, _)
NumAt(s, i, j) ==
    IF j < i THEN 0 ELSE NumAt(s, i, j - 1) * 10 + DigitVal(s[j])

\* ------------------------------------------------------ validate_date_format
\* datetime.strptime(date_str, "%Y%m%d") matches the regular expression
\*   (\d\d\d\d)(1[0-2]|0[1-9]|[1-9])(3[0-1]|[1-2]\d|0[1-9]|[1-9]| [1-9])
\* at the start of the text: the alternatives are tried in this order and
\* the first match is taken.  The lengths of the alternatives of %m that
\* match at position i, in order:
MonthAlts(s, i) ==
    SelectSeq(
        << [len |-> 2, ok |-> i + 1 <= Len(s) /\ s[i] = "1"
                                /\ s[i + 1] \in {"0", "1", "2"}],
           [len |-> 2, ok |-> i + 1 <= Len(s) /\ s[i] = "0"
                                /\ IsDigit(s[i + 1]) /\ s[i + 1] # "0"],
           [len |-> 1, ok |-> i <= Len(s) /\ IsDigit(s[i]) /\ s[i] # "0"] >>,
        LAMBDA a : a.ok)

\* the same for %d
DayAlts(s, i) ==
    SelectSeq(
        << [len |-> 2, ok |-> i + 1 <= Len(s) /\ s[i] = "3"
                                /\ s[i + 1] \in {"0", "1"}],
           [len |-> 2, ok |-> i + 1 <= Len(s) /\ s[i] \in {"1", "2"}
                                /\ IsDigit(s[i + 1])],
           [len |-> 2, ok |-> i + 1 <= Len(s) /\ s[i] = "0"
                                /\ IsDigit(s[i + 1]) /\ s[i + 1] # "0"],
           [len |-> 1, ok |-> i <= Len(s) /\ IsDigit(s[i]) /\ s[i] # "0"],
           [len |-> 2, ok |-> i + 1 <= Len(s) /\ s[i] = " "
                                /\ IsDigit(s[i + 1]) /\ s[i + 1] # "0"] >>,
        LAMBDA a : a.ok)

\* the first alternative of %m after which an alternative of %d matches
MonthFits(s) == SelectSeq(MonthAlts(s, 5), LAMBDA a : DayAlts(s, 5 + a.len) # << >>)

DaysInMonth(y, m) ==
    IF m = 2
    THEN (IF y % 4 = 0 /\ (y % 100 # 0 \/ y % 400 = 0) THEN 29 ELSE 28)
    ELSE IF m \in {4, 6, 9, 11} THEN 30 ELSE 31

\* strptime returns a datetime: the text matches, nothing of it is left
\* over, and datetime(year, month, day) accepts the three numbers
strptime_ok(s) ==
    /\ Len(s) >= 4
    /\ \A i \in 1..4 : IsDigit(s[i])
    /\ MonthFits(s) # << >>
    /\ LET ml  == MonthFits(s)[1].len
           dl  == DayAlts(s, 5 + ml)[1].len
           y   == NumAt(s, 1, 4)
           m   == NumAt(s, 5, 4 + ml)
           d   == IF s[5 + ml] = " " THEN DigitVal(s[6 + ml])
                  ELSE NumAt(s, 5 + ml, 4 + ml + dl)
       IN  /\ 4 + ml + dl = Len(s)
           /\ y >= 1
           /\ d <= DaysInMonth(y, m)

\* lines 84-90
validate_date_format(date_str) == strptime_ok(date_str)

\* a date in the form the error message asks for, YYYYMMDD: eight digits
\* that name a day of the calendar
IsYYYYMMDD(s) ==
    /\ Len(s) = 8
    /\ \A i \in 1..8 : IsDigit(s[i])
    /\ NumAt(s, 1, 4) >= 1
    /\ NumAt(s, 5, 6) \in 1..12
    /\ NumAt(s, 7, 8) \in 1..DaysInMonth(NumAt(s, 1, 4), NumAt(s, 5, 6))

\* ------------------------------------------------------------------ addresses
\* the scheme and host of an absolute URL are one token
Origins == { "https://data.ecmwf.int", "http://mirror.example" }

\* ECMWF_BASE_URL = "https://data.ecmwf.int/forecasts/"
ECMWF_BASE_URL == << "https://data.ecmwf.int", "/", "forecasts", "/" >>

\* the position of the last "/" of s, 0 without one
LastSlash(s) ==
    IF \E i \in 1..Len(s) : s[i] = "/"
    THEN CHOOSE i \in 1..Len(s) :
            s[i] = "/" /\ \A j \in (i + 1)..Len(s) : s[j] # "/"
    ELSE 0

\* urllib.parse.urljoin(base, url) for addresses without query, fragment
\* and dot segments: an absolute url replaces the base, a url that starts
\* with "/" replaces the path of the base, a relative url replaces what
\* follows the last "/" of the path of the base
urljoin(base, url) ==
    IF url = << >> THEN base
    ELSE IF url[1] \in Origins THEN url
    ELSE IF url[1] = "/" THEN << base[1] >> \o url
    ELSE IF LastSlash(base) = 0 THEN << base[1], "/" >> \o url
    ELSE SubSeq(base, 1, LastSlash(base)) \o url

\* the defaults of list_available_files: forecast_time="12z", model="ifs",
\* resolution="0p25", data_type="oper"
forecast_time == "12z"
model == "ifs"
resolution == "0p25"
data_type == "oper"

\* f"{date}/{forecast_time}/{model}/{resolution}/{data_type}/"
ListingPath(d) ==
    d \o << "/", forecast_time, "/", model, "/", resolution, "/", data_type,
            "/" >>

\* ------------------------------------------------------------------ integers
\* A Python int is unbounded: a natural number is the sequence of its
\* digits to the base 1024, lowest first, without a zero as its highest
\* digit (<< >> is 0).
IsNat(n) ==
    /\ \A i \in 1..Len(n) : n[i] \in 0..1023
    /\ n # << >> => n[Len(n)] # 0

\* n * m + c for a small m and c
RECURSIVE MulAdd(_, _, _)
MulAdd(n, m, c) ==
    IF n = << >>
    THEN (IF c = 0 THEN << >>
          ELSE << c % 1024 >> \o MulAdd(n, m, c \div 1024))
    ELSE << (n[1] * m + c) % 1024 >>
            \o MulAdd(Tail(n), m, (n[1] * m + c) \div 1024)

\* n + 1
RECURSIVE Inc(_)
Inc(n) ==
    IF n = << >> THEN << 1 >>
    ELSE IF n[1] < 1023 THEN << n[1] + 1 >> \o Tail(n)
    ELSE << 0 >> \o Inc(Tail(n))

\* int(size) of a text of decimal digits, six digits at a time
RECURSIVE IntOf(_, _)
IntOf(text, acc) ==
    IF text = << >> THEN acc
    ELSE LET n == IF Len(text) < 6 THEN Len(text) ELSE 6
         IN  IntOf(SubSeq(text, n + 1, Len(text)),
                   MulAdd(acc, 10 ^ n, NumAt(text, 1, n)))

\* a text of decimal digits without its leading zeros
RECURSIVE Significant(_)
Significant(text) ==
    IF text # << >> /\ Head(text) = "0" THEN Significant(Tail(text))
    ELSE text

\* int / 1024 has no float when the quotient is 2^1024 or more ("integer
\* division result too large for a float"): every number of 313 decimal
\* digits is that large, no number of 308 digits is; the documents hold no
\* size in between
TooLargeForFloat(text) == Len(Significant(text)) >= 313

\* ---------------------------------------------------------- _format_file_size
Units == << "B", "KB", "MB", "GB", "TB" >>

\* the number of times lines 158-161 divide by 1024: until the value is
\* below 1024 or the four units of the loop are used up
Divisions(n) == IF Len(n) <= 1 THEN 0 ELSE IF Len(n) >= 5 THEN 4 ELSE Len(n) - 1

\* f"{value:.1f}" of value = n / 1024^k: the digits below position k are the
\* fraction; ten times the fraction is a whole number of tenths and a rest,
\* and a rest above one half, or of one half after an odd number of tenths,
\* rounds up.  The float is the exact quotient for n < 2^53.
Tenths(n, k) ==
    LET frac  == SubSeq(n, 1, k)
        ten   == MulAdd(frac, 10, 0)
        t     == IF Len(ten) > k THEN ten[k + 1] ELSE 0
        rest  == SubSeq(ten, 1, k)
        low0  == \A i \in 1..(k - 1) : rest[i] = 0
        above == k > 0 /\ (rest[k] > 512 \/ (rest[k] = 512 /\ ~ low0))
        half  == k > 0 /\ rest[k] = 512 /\ low0
    IN  IF above \/ (half /\ t % 2 = 1) THEN t + 1 ELSE t

\* lines 156-162: the text "<whole>.<tenth> <unit>" as its three parts
_format_file_size(size_bytes) ==
    LET k     == Divisions(size_bytes)
        whole == SubSeq(size_bytes, k + 1, Len(size_bytes))
        t     == Tenths(size_bytes, k)
    IN  [ whole |-> IF t = 10 THEN Inc(whole) ELSE whole,
          tenth |-> IF t = 10 THEN 0 ELSE t,
          unit  |-> Units[k + 1] ]

\* line 161 raises OverflowError for the int of the text size
FormatRaises(size) == TooLargeForFloat(size)

\* ------------------------------------------------------------ _get_file_type
\* lines 164-173: str.endswith compares characters as they are
_get_file_type(filename) ==
    IF EndsWith(filename, << ".", "grib" >>)
         \/ EndsWith(filename, << ".", "grib", "2" >>) THEN "GRIB"
    ELSE IF EndsWith(filename, << ".", "nc" >>)
              \/ EndsWith(filename, << ".", "netcdf" >>) THEN "NetCDF"
    ELSE IF EndsWith(filename, << ".", "idx" >>) THEN "Index"
    ELSE "Unknown"

\* ---------------------------------------------------------- _parse_data_files
\* A document is the sequence of its anchors.  file_pattern cannot match
\* across two anchors ([^"], [^>] and [^<] stop at their borders), so
\* re.findall gives, in the order of the document, the anchors that match.
\* An anchor is the text of its href attribute, its display name, and the
\* three fields that follow </a>: timestamp, size and id.

\* re.IGNORECASE: the suffix is compared without regard to case
LowerCase(tok) ==
    CASE tok = "GRIB"  -> "grib"
      [] tok = "INDEX" -> "index"
      [] tok = "NC"    -> "nc"
      [] OTHER         -> tok

Lower(s) == [i \in 1..Len(s) |-> LowerCase(s[i])]

\* \.(?:grib2?|index|nc)
Suffixes ==
    { << ".", "grib" >>, << ".", "grib", "2" >>, << ".", "index" >>,
      << ".", "nc" >> }

\* href="([^"]+\.(?:grib2?|index|nc))"
HrefMatches(href) ==
    \E suf \in Suffixes :
        EndsWith(Lower(href), suf) /\ Len(href) > Len(suf)

\* (\d{2}-\d{2}-\d{4}\s+\d{2}:\d{2}) and the whitespace that must follow
StampMatches(s) ==
    /\ Len(s) >= 16
    /\ \A i \in {1, 2, 4, 5, 7, 8, 9, 10} : IsDigit(s[i])
    /\ s[3] = "-" /\ s[6] = "-"
    /\ \A i \in 11..(Len(s) - 5) : s[i] = " "
    /\ \A i \in {Len(s) - 4, Len(s) - 3, Len(s) - 1, Len(s)} : IsDigit(s[i])
    /\ s[Len(s) - 2] = ":"

\* (\d+)
NumberMatches(s) == s # << >> /\ \A i \in 1..Len(s) : IsDigit(s[i])

\* line 128: file_pattern matches the anchor
Accepts(a) ==
    /\ HrefMatches(a.href)
    /\ a.text # << >>
    /\ StampMatches(a.stamp)
    /\ NumberMatches(a.size)
    /\ NumberMatches(a.id)

\* line 129: re.findall(file_pattern, html_content, re.IGNORECASE)
Matches(html) == SelectSeq(html, Accepts)

\* line 135: re.search(r'-(\d+)h-', filename) matches at position i with
\* the digits up to position j
HourAt(s, i, j) ==
    /\ s[i] = "-"
    /\ j > i
    /\ j + 2 <= Len(s)
    /\ \A k \in (i + 1)..j : IsDigit(s[k])
    /\ s[j + 1] = "h"
    /\ s[j + 2] = "-"

\* a search that keeps the last match of the name, not the first
forecast_hour_last(s) ==
    IF \E i, j \in 1..Len(s) : HourAt(s, i, j)
    THEN LET i == CHOOSE i \in 1..Len(s) :
                    /\ \E j \in 1..Len(s) : HourAt(s, i, j)
                    /\ \A l \in (i + 1)..Len(s) :
                          ~ \E j \in 1..Len(s) : HourAt(s, l, j)
             j == CHOOSE j \in 1..Len(s) : HourAt(s, i, j)
         IN  SubSeq(s, i + 1, j)
    ELSE << "unknown" >>

\* lines 135-136: the digits of the leftmost match, or "unknown"
forecast_hour(s) ==
    IF \E i, j \in 1..Len(s) : HourAt(s, i, j)
    THEN LET i == CHOOSE i \in 1..Len(s) :
                    /\ \E j \in 1..Len(s) : HourAt(s, i, j)
                    /\ \A l \in 1..(i - 1) :
                          ~ \E j \in 1..Len(s) : HourAt(s, l, j)
             j == CHOOSE j \in 1..Len(s) : HourAt(s, i, j)
         IN  SubSeq(s, i + 1, j)
    ELSE << "unknown" >>

\* line 131: f"{self.config.base_url}{date}/{forecast_time}/..."
ParseBase(base, d) == base \o ListingPath(d)

\* lines 138-151: the record of one match
file_info(a, base, d) ==
    [ filename      |-> strip(a.text),
      url           |-> urljoin(ParseBase(base, d), a.href),
      date          |-> d,
      forecast_time |-> forecast_time,
      model         |-> model,
      resolution    |-> resolution,
      data_type     |-> data_type,
      forecast_hour |-> forecast_hour(a.text),
      size          |-> _format_file_size(IntOf(a.size, << >>)),
      raw_size      |-> IntOf(a.size, << >>),
      type          |-> _get_file_type(a.text),
      modified      |-> a.stamp ]

\* line 147 raises for one of the matches
ParseRaises(html) ==
    \E i \in 1..Len(Matches(html)) : FormatRaises(Matches(html)[i].size)

\* lines 124-154
_parse_data_files(html, base, d) ==
    [i \in 1..Len(Matches(html)) |-> file_info(Matches(html)[i], base, d)]

\* ------------------------------------------------ list_available_configurations
\* lines 271-275
common_configs ==
    << [t |-> "12z", m |-> "ifs", rs |-> << "0p25", "0p4" >>,
        ds |-> << "oper", "enfo", "waef", "wave" >>],
       [t |-> "18z", m |-> "ifs", rs |-> << "0p25", "0p4" >>,
        ds |-> << "oper", "enfo", "waef", "wave" >>],
       [t |-> "18z", m |-> "aifs-single", rs |-> << "0p25" >>,
        ds |-> << "oper" >>] >>

\* if x not in list: list.append(x), for every x of xs
RECURSIVE AppendNew(_, _)
AppendNew(list, xs) ==
    IF xs = << >> THEN list
    ELSE AppendNew(IF \E i \in 1..Len(list) : list[i] = Head(xs)
                   THEN list ELSE Append(list, Head(xs)),
                   Tail(xs))

\* lines 277-286 for the first n entries of common_configs
RECURSIVE Configured(_, _)
Configured(times, n) ==
    IF n = 0
    THEN [forecast_times |-> times, models |-> << >>, resolutions |-> << >>,
          data_types |-> << >>]
    ELSE LET c  == Configured(times, n - 1)
             cc == common_configs[n]
         IN  IF times = << >> \/ \E i \in 1..Len(times) : times[i] = cc.t
             THEN [c EXCEPT !.models = AppendNew(@, << cc.m >>),
                            !.resolutions = AppendNew(@, cc.rs),
                            !.data_types = AppendNew(@, cc.ds)]
             ELSE c

\* lines 250-288 once the forecast times are known
configurations(times) == Configured(times, Len(common_configs))

\* ------------------------------------------------------------ listing inputs
\* the dates a caller passes: a day in the form YYYYMMDD, a day with a
\* one-digit month, a month 13, a 30th of February, a date with dashes, the
\* empty text
DateInputs ==
    { << "2", "0", "2", "5", "0", "6", "1", "7" >>,
      << "2", "0", "2", "5", "6", "1", "7" >>,
      << "2", "0", "2", "5", "1", "3", "0", "1" >>,
      << "2", "0", "2", "5", "0", "2", "3", "0" >>,
      << "2", "0", "2", "5", "-", "0", "6", "-", "1", "7" >>,
      << >> }

\* config.base_url: the default, and the same address without its last "/"
BaseUrls ==
    { ECMWF_BASE_URL, << "https://data.ecmwf.int", "/", "forecasts" >> }

\* "17-06-2025 12:00" and "2025-06-17 12:00"
Stamp ==
    << "1", "7", "-", "0", "6", "-", "2", "0", "2", "5", " ", "1", "2", ":",
       "0", "0" >>
IsoStamp ==
    << "2", "0", "2", "5", "-", "0", "6", "-", "1", "7", " ", "1", "2", ":",
       "0", "0" >>

Anchor(href, text, stamp, size) ==
    [href |-> href, text |-> text, stamp |-> stamp, size |-> size,
     id |-> << "1" >>]

\* a size field of 313 digits
LongSize == [i \in 1..313 |-> "9"]

\* the anchors of the documents: a plain entry, a display name with a space
\* after it, an upper-case suffix, an .index entry, an href with an absolute
\* path, an href with an absolute URL, a second href with the display name
\* of the first, a name with a forecast hour, a suffix the pattern does not
\* know, a timestamp in another form, a size of 313 digits
\* display names for the search of line 135: the name of a forecast step,
\* a name with two steps, a name whose "H" is a capital
HourName ==
    << "20250617120000", "-", "6", "h", "-", "oper", "-", "fc", ".",
       "grib", "2" >>

TwoHoursName ==
    << "ifs", "-", "1", "2", "h", "-", "x", "-", "3", "h", "-", "fc", ".",
       "grib", "2" >>

UpperHourName == << "ifs", "-", "6", "H", "-", "oper", ".", "nc" >>

Anchors ==
    { Anchor(<< "a", ".", "grib", "2" >>, << "a", ".", "grib", "2" >>,
             Stamp, << "1", "5", "3", "6" >>),
      Anchor(<< "a", ".", "grib", "2" >>, << "a", ".", "grib", "2", " " >>,
             Stamp, << "5", "0", "0" >>),
      Anchor(<< "B", ".", "GRIB", "2" >>, << "B", ".", "GRIB", "2" >>,
             Stamp, << "0" >>),
      Anchor(<< "c", ".", "index" >>, << "c", ".", "index" >>,
             Stamp, << "1", "2", "8", "0" >>),
      Anchor(<< "/", "forecasts", "/", "x", "/", "d", ".", "nc" >>,
             << "d", ".", "nc" >>, Stamp,
             << "1", "0", "4", "8", "5", "7", "6" >>),
      Anchor(<< "http://mirror.example", "/", "e", ".", "grib" >>,
             << "e", ".", "grib" >>, Stamp, << "0", "0", "7" >>),
      Anchor(<< "x", "/", "a", ".", "grib", "2" >>,
             << "a", ".", "grib", "2" >>, Stamp, << "1", "5", "3", "6" >>),
      Anchor(HourName, HourName, Stamp,
             << "1", "0", "4", "8", "5", "7", "5" >>),
      Anchor(TwoHoursName, TwoHoursName, Stamp,
             << "1", "0", "7", "3", "7", "4", "1", "8", "2", "4" >>),
      Anchor(UpperHourName, UpperHourName, Stamp,
             << "5", "4", "9", "7", "5", "5", "8", "1", "3", "8", "8", "8",
                "0" >>),
      Anchor(<< "f", ".", "txt" >>, << "f", ".", "txt" >>,
             Stamp, << "1", "0" >>),
      Anchor(<< "a", ".", "grib", "2" >>, << "a", ".", "grib", "2" >>,
             IsoStamp, << "1", "5", "3", "6" >>),
      Anchor(<< "g", ".", "nc" >>, << "g", ".", "nc" >>, Stamp, LongSize) }

Documents == UNION { [1..n -> Anchors] : n \in 0..MaxEntries }

\* the forecast times the pattern of line 263 finds in the page of a date
TimeLists ==
    { << >>, << "12z" >>, << "18z" >>, << "06z" >>, << "12z", "18z" >> }

\* the statuses the transport can answer a listing request with
ListingStatuses == Statuses \cup {500}

\* --------------------------------------------------------- the listing calls
\* a downloader on which list_available_files or
\* list_available_configurations is called once; download_files is not
\* called
ListInit ==
    /\ DownloadInit
    /\ files = << >>
    /\ max_concurrent = << >>
    /\ dirs = {}
    /\ op \in {"files", "configurations"}
    /\ date \in DateInputs
    /\ base_url \in BaseUrls
    /\ lpc = "idle"
    /\ requests = << >>
    /\ answer = "none"
    /\ html_content = << >>
    /\ parser_calls = 0
    /\ listed = << >>
    /\ error = "none"
    /\ SingleCall

\* mutant: the request is issued before the date is looked at
ListFilesRequestsFirst ==
    /\ op = "files"
    /\ lpc = "idle"
    /\ requests' = Append(requests, urljoin(base_url, ListingPath(date)))
    /\ IF ~ validate_date_format(date)
       THEN lpc' = "raised" /\ error' = "ValueError"
       ELSE lpc' = "requesting" /\ UNCHANGED error
    /\ UNCHANGED << hvars, dvars, op, date, base_url, answer, html_content,
                    parser_calls, listed >>

\* lines 98-105: the date is validated, the address is built and requested
ListFiles ==
    /\ op = "files"
    /\ lpc = "idle"
    /\ IF ~ validate_date_format(date)
       THEN lpc' = "raised" /\ error' = "ValueError" /\ UNCHANGED requests
       ELSE /\ requests' =
                Append(requests, urljoin(base_url, ListingPath(date)))
            /\ lpc' = "requesting"
            /\ UNCHANGED error
    /\ UNCHANGED << hvars, dvars, op, date, base_url, answer, html_content,
                    parser_calls, listed >>

\* the call returns [] after the transport's answer a
ReturnsEmpty(a) ==
    /\ answer' = a
    /\ listed' = << >>
    /\ lpc' = "returned"
    /\ UNCHANGED << hvars, dvars, op, date, base_url, requests, html_content,
                    parser_calls, error >>

\* mutant: a missing listing is read and parsed like any other answer
ListNotFoundParsed ==
    /\ op = "files"
    /\ lpc = "requesting"
    /\ answer' = "not_found"
    /\ html_content' = << >>
    /\ parser_calls' = parser_calls + 1
    /\ listed' = _parse_data_files(<< >>, base_url, date)
    /\ lpc' = "returned"
    /\ UNCHANGED << hvars, dvars, op, date, base_url, requests, error >>

\* lines 106-108: the answer has status 404
ListNotFound ==
    /\ op = "files"
    /\ lpc = "requesting"
    /\ ReturnsEmpty("not_found")

\* lines 110, 117-119: raise_for_status raises ClientResponseError, a
\* ClientError
ListStatusRejected ==
    /\ op = "files"
    /\ lpc = "requesting"
    /\ \E s \in ListingStatuses : s # 404 /\ raise_for_status(s)
    /\ ReturnsEmpty("status")

\* lines 105, 117-119: the connection fails (ClientConnectionError, a
\* ClientError)
ListRequestFails ==
    /\ op = "files"
    /\ lpc = "requesting"
    /\ ReturnsEmpty("connect")

\* lines 110-111: the status passes and the body is awaited
ListResponseAccepted ==
    /\ op = "files"
    /\ lpc = "requesting"
    /\ \E s \in ListingStatuses : s # 404 /\ ~ raise_for_status(s)
    /\ lpc' = "reading"
    /\ UNCHANGED << hvars, dvars, op, date, base_url, requests, answer,
                    html_content, parser_calls, listed, error >>

\* lines 111, 117-119: the body breaks off (ClientPayloadError, a
\* ClientError)
ListBodyFails ==
    /\ op = "files"
    /\ lpc = "reading"
    /\ ReturnsEmpty("payload")

\* the total timeout of the session (line 64) expires while the response or
\* its body is awaited: asyncio.TimeoutError is not an aiohttp.ClientError,
\* line 117 does not catch it
ListTimesOut ==
    /\ op = "files"
    /\ lpc \in {"requesting", "reading"}
    /\ answer' = "timeout"
    /\ error' = "TimeoutError"
    /\ lpc' = "raised"
    /\ UNCHANGED << hvars, dvars, op, date, base_url, requests, html_content,
                    parser_calls, listed >>

\* mutant: the parser appends to a list the downloader keeps between its
\* calls
ListParsedAccumulating ==
    /\ op = "files"
    /\ lpc = "reading"
    /\ \E html \in Documents :
          /\ Len(html) <= page_entries
          /\ html_content' = html
          /\ IF ParseRaises(html)
             THEN /\ error' = "OverflowError"
                  /\ lpc' = "raised"
                  /\ UNCHANGED listed
             ELSE /\ listed' = (IF first = << >> THEN << >>
                                ELSE first[1].listed)
                                   \o _parse_data_files(html, base_url, date)
                  /\ lpc' = "returned"
                  /\ UNCHANGED error
    /\ answer' = "ok"
    /\ parser_calls' = parser_calls + 1
    /\ UNCHANGED << hvars, dvars, op, date, base_url, requests >>

\* lines 111-115: the body arrives and is parsed; an error of the parser
\* is no ClientError and leaves the call
ListParsed ==
    /\ op = "files"
    /\ lpc = "reading"
    /\ \E html \in Documents :
          /\ Len(html) <= page_entries
          /\ html_content' = html
          /\ IF ParseRaises(html)
             THEN /\ error' = "OverflowError"
                  /\ lpc' = "raised"
                  /\ UNCHANGED listed
             ELSE /\ listed' = _parse_data_files(html, base_url, date)
                  /\ lpc' = "returned"
                  /\ UNCHANGED error
    /\ answer' = "ok"
    /\ parser_calls' = parser_calls + 1
    /\ UNCHANGED << hvars, dvars, op, date, base_url, requests >>

\* lines 247-260: the date is validated, the page of the date is requested
ListConfigurations ==
    /\ op = "configurations"
    /\ lpc = "idle"
    /\ IF ~ validate_date_format(date)
       THEN lpc' = "raised" /\ error' = "ValueError" /\ UNCHANGED requests
       ELSE /\ requests' =
                Append(requests, urljoin(base_url, date \o << "/" >>))
            /\ lpc' = "requesting"
            /\ UNCHANGED error
    /\ UNCHANGED << hvars, dvars, op, date, base_url, answer, html_content,
                    parser_calls, listed >>

\* lines 261-262: the answer has status 200 and the body is awaited
ConfigurationsAccepted ==
    /\ op = "configurations"
    /\ lpc = "requesting"
    /\ lpc' = "reading"
    /\ UNCHANGED << hvars, dvars, op, date, base_url, requests, answer,
                    html_content, parser_calls, listed, error >>

\* lines 262-288: the page arrives, its forecast times are read and the
\* common configurations of these times are returned
ConfigurationsRead ==
    /\ op = "configurations"
    /\ lpc = "reading"
    /\ \E times \in TimeLists : listed' = configurations(times)
    /\ answer' = "ok"
    /\ lpc' = "returned"
    /\ UNCHANGED << hvars, dvars, op, date, base_url, requests, html_content,
                    parser_calls, error >>

\* lines 261, 267-288: another status, or any error of the transport (the
\* bare except catches a timeout too): all common configurations are
\* returned
ConfigurationsDefaulted ==
    /\ op = "configurations"
    /\ lpc \in {"requesting", "reading"}
    /\ \E a \in {"status", "connect", "timeout"} : answer' = a
    /\ listed' = configurations(<< >>)
    /\ lpc' = "returned"
    /\ UNCHANGED << hvars, dvars, op, date, base_url, requests, html_content,
                    parser_calls, error >>

ListNext ==
    \/ ListFiles
    \/ ListNotFound
    \/ ListStatusRejected
    \/ ListRequestFails
    \/ ListResponseAccepted
    \/ ListBodyFails
    \/ ListTimesOut
    \/ ListParsed
    \/ ListConfigurations
    \/ ConfigurationsAccepted
    \/ ConfigurationsRead
    \/ ConfigurationsDefaulted

ListSpec == ListInit /\ [][ListNext]_vars

\* ------------------------------------------- several calls on one downloader
\* The object keeps self.config and self.session between its calls and
\* nothing else: the list of records is a local of _parse_data_files (line
\* 124) and no method assigns to self.config.

\* one downloader on which listing calls follow each other, with one
\* download_files call of one record between the first two; the server
\* answers with documents of one entry
RepeatInit ==
    /\ DownloadInit
    /\ files = << [date |-> "20250617", filename |-> 1] >>
    /\ max_concurrent = << >>
    /\ dirs = {}
    /\ op \in {"files", "configurations"}
    /\ date \in DateInputs
    /\ base_url \in BaseUrls
    /\ lpc = "idle"
    /\ requests = << >>
    /\ answer = "none"
    /\ html_content = << >>
    /\ parser_calls = 0
    /\ listed = << >>
    /\ error = "none"
    /\ calls = 1
    /\ first = << >>
    /\ page_entries = 1

\* the listing call has ended
ListingEnded == lpc \in {"returned", "raised"}

\* the call that ended ran the parser (lines 111-113)
Parsed == op = "files" /\ answer = "ok" /\ ListingEnded

\* the caller makes its next listing call: the locals of the call that
\* ended are gone, self.config is what it was; the first call that parsed
\* is remembered with what it returned or raised
NextCall ==
    /\ ListingEnded
    /\ main \in {"idle", "returned", "raised"}
    /\ calls < MaxCalls
    /\ calls' = calls + 1
    /\ first' = IF first = << >> /\ Parsed
                THEN << [ call   |-> calls,
                          html   |-> html_content,
                          date   |-> date,
                          listed |-> listed,
                          error  |-> error ] >>
                ELSE first
    /\ op' \in {"files", "configurations"}
    /\ date' \in DateInputs
    /\ lpc' = "idle"
    /\ requests' = << >>
    /\ answer' = "none"
    /\ html_content' = << >>
    /\ parser_calls' = 0
    /\ listed' = << >>
    /\ error' = "none"
    /\ UNCHANGED << dvars, base_url, page_entries >>

\* download_files runs between the first listing call and the second
Downloading ==
    /\ calls = 1
    /\ ListingEnded
    /\ Next

RepeatNext ==
    \/ ListNext
    \/ NextCall
    \/ Downloading

RepeatSpec == RepeatInit /\ [][RepeatNext]_vars

\* ==================================================================== claims
\* the effective limit once download_files has bound it (line 214)
Limit == max_concurrent[1]

Running == main \in {"gathering", "returned"} /\ files # << >>

\* transfers past the admission gate whose download_file has not returned
InFlight == { r \in Recs : pc[r] \in {"requesting", "streaming"} }

\* C1: in every state of a batch with limit N >= 1 the number of transfers
\* that passed the admission gate and have not finished is at most N.
C1_ConcurrencyCeiling ==
    Running => Cardinality(InFlight) <= Limit

\* the gate is full while a record still waits
C1_Witness ==
    /\ main = "gathering"
    /\ Cardinality(InFlight) = Limit
    /\ \E r \in Recs : pc[r] = "pending"

\* the ways a transfer fails through the transport (a timeout is raised at
\* the same awaits as a broken connection) or through the filesystem
TransportFailures == {"connect", "status", "first_chunk", "mid_stream"}
IoFailures == {"mkdir", "open", "write"}

\* C2: the step that ends a transfer as failed by a transport failure, a
\* timeout or an I/O failure leaves no file at the record's destination.
C2_NoPartialFile ==
    [][ \A r \in Recs :
          ( /\ pc[r] # "done"
            /\ pc'[r] = "done"
            /\ cause'[r] \in TransportFailures \cup IoFailures )
          => ~ fs'[output_path(r)].exists ]_vars

\* a transfer broke after bytes were written and its file is gone
C2_Witness ==
    \E r \in Recs :
        /\ cause[r] = "mid_stream"
        /\ ~ fs[output_path(r)].exists

\* C3: no record is attempted twice, and when download_files returns every
\* record was attempted exactly once, whatever failed among its siblings.
C3_ExactlyOnce ==
    /\ \A r \in Recs : attempts[r] <= 1
    /\ main = "returned" => \A r \in Recs : attempts[r] = 1

\* an early record raised or was cancelled and a later one still succeeded
C3_Witness ==
    /\ main = "returned"
    /\ \E r, q \in Recs :
          /\ r < q
          /\ cause[r] \in {"mkdir", "cancel", "connect"}
          /\ cause[q] = "ok"
          /\ attempts[q] = 1

\* C4: with a limit >= 1 download_files does not raise, and it returns
\* success = the number of transfers that ended well, failed = the number
\* of all others (raised ones included), so success + failed = M.
C4_Aggregation ==
    /\ main = "raised" =>
          EffectiveLimit(max_concurrent, max_concurrent_downloads) < 1
    /\ (main = "returned" /\ files # << >>) =>
          /\ results.success + results.failed = Len(files)
          /\ results.success =
                Cardinality({ r \in Recs : cause[r] = "ok" })
          /\ results.failed =
                Cardinality({ r \in Recs :
                    cause[r] \in TransportFailures \cup IoFailures
                                 \cup {"cancel"} })

\* a batch returned in which one transfer raised out of download_file and
\* another succeeded, both counted
C4_Witness ==
    /\ main = "returned"
    /\ \E r, q \in Recs :
          /\ cause[r] \in {"mkdir", "cancel"}
          /\ cause[q] = "ok"
    /\ results.failed >= 1
    /\ results.success >= 1

\* exactly one record had its transport fail, all others were served
OneTransportFailure ==
    \E r \in Recs :
        /\ cause[r] \in TransportFailures
        /\ \A q \in Recs \ {r} : cause[q] = "ok"

\* C5: if exactly one record's transport call fails, the batch returns
\* failed = 1 and success = M - 1 and the file of every other record exists
\* and holds all the bytes streamed for it.
C5_FailureIsolation ==
    (main = "returned" /\ OneTransportFailure) =>
        /\ results = [success |-> Len(files) - 1, failed |-> 1]
        /\ \A r \in Recs :
              cause[r] = "ok" =>
                  fs[output_path(r)] = Complete(r, downloaded[r])

\* C6: when download_files returns no transfer is pending or in flight.
C6_NoFailFast ==
    main = "returned" => \A r \in Recs : pc[r] = "done"

\* the first record failed and the batch still ran to its end
C6_Witness ==
    /\ main = "returned"
    /\ Len(files) >= 2
    /\ download_results[1] \in {"false", "exc"}
    /\ \A r \in Recs : pc[r] = "done"

\* C7: an empty batch returns {success: 0, failed: 0} without a request, a
\* filesystem operation, a semaphore or a progress display, for every limit.
C7_EmptyBatch ==
    (files = << >> /\ main # "idle") =>
        /\ main = "returned"
        /\ results = [success |-> 0, failed |-> 0]
        /\ ~ io.get /\ ~ io.fsop /\ ~ io.acquire
        /\ semaphore = << >>
        /\ ~ progressOpen
        /\ DOMAIN progress = {}

\* the empty batch returned although the limit is one a semaphore rejects
C7_Witness ==
    /\ files = << >>
    /\ main = "returned"
    /\ max_concurrent = << 0 - 1 >>

\* C8: a file fetch answered with a status outside 200..299 ends as failed
\* and nothing of its body reaches the destination file.
C8_NonSuccessStatusFails ==
    \A r \in Recs :
        (status[r] # 0 /\ status[r] \notin 200..299) =>
            /\ fd[r] = "closed"
            /\ pc[r] # "streaming"
            /\ download_results[r] = "false"

\* C9: while a transfer streams, the progress task shows the cumulative
\* bytes received, and the declared total when there is one.
C9_ProgressReports ==
    \A r \in Recs :
        pc[r] = "streaming" =>
            /\ progress[r].completed = downloaded[r]
            /\ progress[r].total =
                  (IF total_size[r] > 0 THEN total_size[r] ELSE NoTotal)

\* C10: the live progress tasks are at most the limit, each belongs to a
\* transfer that passed the gate, and none outlives its transfer.
C10_LiveSignals ==
    Running =>
        /\ Cardinality(DOMAIN progress) <= Limit
        /\ \A t \in DOMAIN progress : attempts[t] = 1 /\ t \in InFlight

\* C16: no two transfers of a batch have the same destination open at the
\* same time, and the file of a transfer that completed is not deleted by
\* another transfer of the batch.
C16_DistinctDestinations ==
    /\ \A r, q \in Recs :
          (r # q /\ fd[r] # "closed" /\ fd[q] # "closed")
              => output_path(r) # output_path(q)
    /\ \A r \in Recs : cause[r] = "ok" => fs[output_path(r)].exists

\* C18: the step that ends a transfer as failed before it opened the
\* destination (connection failure or error status) leaves the file at the
\* destination as it was.
C18_KeepsEarlierFile ==
    [][ \A r \in Recs :
          ( /\ pc[r] = "requesting"
            /\ pc'[r] = "done"
            /\ cause'[r] \in {"connect", "status"} )
          => fs'[output_path(r)] = fs[output_path(r)] ]_vars

\* C19: in every state of a batch the free permits and the transfers that
\* hold one add up to the limit, however transfers ended, and all permits
\* are free when download_files has returned.
C19_PermitsConserved ==
    Running =>
        /\ semaphore[1] + Cardinality(InFlight) = Limit
        /\ main = "returned" => semaphore = max_concurrent

\* a batch returned with all permits free after one task raised or was
\* cancelled and another returned False
C19_Witness ==
    /\ main = "returned"
    /\ semaphore = max_concurrent
    /\ \E r, q \in Recs :
          /\ download_results[r] = "exc"
          /\ download_results[q] = "false"

\* C17: under a fair event loop and a transport that ends every transfer,
\* a batch that is running (some of its records wait at the gate or are in
\* flight) eventually has every record started and download_files returned.
C17_EveryRecordStarts ==
    (main = "gathering")
        ~> (main = "returned" /\ \A r \in Recs : attempts[r] = 1)

\* a batch longer than its limit returned: its last record waited at the
\* gate for a permit of an earlier one
C17_Witness ==
    /\ main = "returned"
    /\ files # << >>
    /\ Len(files) > Limit
    /\ \A r \in Recs : attempts[r] = 1

\* ------------------------------------------------------ claims on the listings
\* C11: a listing request answered with status 404 makes list_available_files
\* return the empty sequence, raise nothing and leave the parser uncalled.
C11_NotFoundIsEmpty ==
    (op = "files" /\ answer = "not_found") =>
        /\ lpc = "returned"
        /\ listed = << >>
        /\ error = "none"
        /\ parser_calls = 0
        /\ html_content = << >>

\* the listing of a valid date was answered with 404 and the call returned
C11_Witness ==
    /\ op = "files"
    /\ answer = "not_found"
    /\ lpc = "returned"
    /\ Len(requests) = 1

\* C12: whatever the transport answers, the only error list_available_files
\* raises to its caller is the addressing error of a malformed date.
C12_OnlyAddressingError ==
    (op = "files" /\ lpc = "raised") =>
        /\ error = "ValueError"
        /\ answer = "none"

\* C13: a listing call with a date that is no valid YYYYMMDD date raises the
\* addressing error, and no request was issued when that error is raised.
C13_AddressingErrorFirst ==
    /\ error = "ValueError" => requests = << >>
    /\ (lpc # "idle" /\ ~ IsYYYYMMDD(date)) =>
          /\ error = "ValueError"
          /\ requests = << >>

\* C14: _parse_data_files raises nothing whatever the document is, gives
\* the empty sequence for a document without a conforming entry, and gives
\* every record a raw_size >= 0 and a type among the four kinds.
C14_ParserTotal ==
    (op = "files" /\ parser_calls > 0) =>
        /\ error = "none"
        /\ lpc = "returned"
        /\ Matches(html_content) = << >> => listed = << >>
        /\ \A i \in 1..Len(listed) :
              /\ IsNat(listed[i].raw_size)
              /\ listed[i].type \in {"GRIB", "NetCDF", "Index", "Unknown"}

\* C15: the type of every record is what the precedence of suffixes gives
\* for the record's own filename.
C15_KindFromFilename ==
    (op = "files" /\ lpc = "returned") =>
        \A i \in 1..Len(listed) :
            listed[i].type = _get_file_type(listed[i].filename)

\* C20: the url of every record is the href of its entry joined to the
\* address the listing document was requested from.
C20_UrlFromListingAddress ==
    (op = "files" /\ lpc = "returned" /\ answer = "ok") =>
        \A i \in 1..Len(listed) :
            listed[i].url =
                urljoin(requests[1], Matches(html_content)[i].href)

\* C21: for every record the parser returned, forecast_hour is the digit
\* string of the first "-<digits>h-" of the entry's display name, and it is
\* "unknown" exactly when the display name holds no such pattern.
C21_HourOfFirstPattern ==
    (op = "files" /\ lpc = "returned" /\ answer = "ok") =>
        \A i \in 1..Len(listed) :
            LET name == Matches(html_content)[i].text
                hour == listed[i].forecast_hour
                Decimal == { Digits[d] : d \in 1..10 }
                \* "-<digits>h-" starts at p and its digits are hour
                At(p) == /\ p + Len(hour) + 2 <= Len(name)
                         /\ name[p] = "-"
                         /\ SubSeq(name, p + 1, p + Len(hour)) = hour
                         /\ \A k \in 1..Len(hour) : hour[k] \in Decimal
                         /\ name[p + Len(hour) + 1] = "h"
                         /\ name[p + Len(hour) + 2] = "-"
                \* "-<digits>h-" starts at p, whatever its digits
                Some(p) == /\ name[p] = "-"
                           /\ \E q \in (p + 2)..(Len(name) - 1) :
                                 /\ \A k \in (p + 1)..(q - 1) :
                                       name[k] \in Decimal
                                 /\ name[q] = "h"
                                 /\ name[q + 1] = "-"
            IN  IF \E p \in 1..Len(name) : Some(p)
                THEN /\ hour # << "unknown" >>
                     /\ \E p \in 1..Len(name) :
                           /\ At(p)
                           /\ \A l \in 1..(p - 1) : ~ Some(l)
                ELSE hour = << "unknown" >>

\* a listing was returned with the step "6" of the name
\* 20250617120000-6h-oper-fc.grib2, the first step "12" of a name with two
\* steps, or "unknown" for a name without the pattern
C21_Witness ==
    /\ op = "files" /\ lpc = "returned" /\ answer = "ok"
    /\ Len(listed) = 2
    /\ Matches(html_content)[1].text = HourName
    /\ listed[1].forecast_hour = << "6" >>
    /\ \/ /\ Matches(html_content)[2].text = TwoHoursName
          /\ listed[2].forecast_hour = << "1", "2" >>
       \/ /\ Matches(html_content)[2].text = UpperHourName
          /\ listed[2].forecast_hour = << "unknown" >>

\* the order of two natural numbers
Leq(a, b) ==
    \/ Len(a) < Len(b)
    \/ /\ Len(a) = Len(b)
       /\ \/ a = b
          \/ \E i \in 1..Len(a) :
                /\ a[i] < b[i]
                /\ \A j \in (i + 1)..Len(a) : a[j] = b[j]

\* 1024^k, n * 1024^k and n + 1024^k
Pow1024(k) == [ i \in 1..(k + 1) |-> IF i = k + 1 THEN 1 ELSE 0 ]
Times1024(n, k) == IF n = << >> THEN << >> ELSE [ i \in 1..k |-> 0 ] \o n
Plus1024(n, k) ==
    [ i \in 1..k |-> IF i <= Len(n) THEN n[i] ELSE 0 ]
        \o Inc(SubSeq(n, k + 1, Len(n)))

\* the unit the claim gives a size s, as the number of divisions by 1024
UnitIndex(s) ==
    IF \E k \in 0..3 : ~ Leq(Pow1024(k + 1), s)
    THEN CHOOSE k \in 0..3 :
             /\ ~ Leq(Pow1024(k + 1), s)
             /\ \A j \in 0..(k - 1) : Leq(Pow1024(j + 1), s)
    ELSE 4

\* the text shown is s / 1024^k to one decimal place: with T the number
\* of tenths shown, | T / 10 - s / 1024^k | <= 1 / 20, which is
\* 2 * T * 1024^k <= 20 * s + 1024^k  and  20 * s <= (2 * T + 1) * 1024^k
OneDecimalOf(shown, s, k) ==
    LET T == MulAdd(shown.whole, 10, shown.tenth)
    IN  /\ shown.tenth \in 0..9
        /\ Leq(Times1024(MulAdd(T, 2, 0), k),
               Plus1024(MulAdd(s, 20, 0), k))
        /\ Leq(MulAdd(s, 20, 0), Times1024(MulAdd(T, 2, 1), k))

\* C22: for every size s >= 0, _format_file_size selects the unit of
\* index k = the least k in 0..3 (B, KB, MB, GB) with s < 1024^(k+1), or TB
\* when s >= 1024^4, and shows s / 1024^k with one decimal place (500 is
\* "500.0 B", 1536 is "1.5 KB", 1073741824 is "1.0 GB"): every size of a
\* conforming entry of a parsed document was formatted that way.
C22_UnitAndOneDecimal ==
    (op = "files" /\ parser_calls > 0) =>
        /\ lpc = "returned"
        /\ Len(listed) = Len(Matches(html_content))
        /\ \A i \in 1..Len(listed) :
              LET s     == listed[i].raw_size
                  shown == listed[i].size
                  k     == UnitIndex(s)
              IN  /\ shown.unit = Units[k + 1]
                  /\ OneDecimalOf(shown, s, k)
                  /\ s = << 500 >> =>
                        shown = [ whole |-> << 500 >>, tenth |-> 0,
                                  unit |-> "B" ]
                  /\ s = << 512, 1 >> =>
                        shown = [ whole |-> << 1 >>, tenth |-> 5,
                                  unit |-> "KB" ]
                  /\ s = << 0, 0, 0, 1 >> =>
                        shown = [ whole |-> << 1 >>, tenth |-> 0,
                                  unit |-> "GB" ]

\* C23: the parser returns exactly one record per conforming entry of the
\* document, in the order in which the entries occur in the document: no
\* conforming entry is re-sorted, merged, de-duplicated or dropped, and no
\* record is emitted for a non-conforming entry.
C23_OneRecordPerEntryInOrder ==
    (op = "files" /\ parser_calls > 0) =>
        LET conforming == { p \in 1..Len(html_content) :
                               Accepts(html_content[p]) }
            \* the k-th conforming entry of the document
            Entry(k) == html_content[
                CHOOSE p \in conforming :
                    Cardinality({ q \in conforming : q <= p }) = k ]
        IN  /\ lpc = "returned"
            /\ Len(listed) = Cardinality(conforming)
            /\ \A k \in 1..Len(listed) :
                  /\ listed[k].filename = strip(Entry(k).text)
                  /\ listed[k].modified = Entry(k).stamp
                  /\ listed[k].raw_size = IntOf(Entry(k).size, << >>)
                  /\ listed[k].url =
                        urljoin(ParseBase(base_url, date), Entry(k).href)

GateWaiting ==
    /\ main = "gathering"
    /\ semaphore[1] >= 1
    /\ \E r \in Recs : pc[r] = "pending"

\* C25: the effective concurrency limit of download_files is the
\* max_concurrent argument whenever that argument is a positive integer,
\* and the configured max_concurrent_downloads when the argument is omitted
\* or 0; with an effective limit >= 1 the batch never blocks forever at the
\* admission gate with a free slot unused.
C25_EffectiveLimit ==
    /\ [][ (main = "idle" /\ main' = "gathering") =>
             /\ max_concurrent' =
                   IF max_concurrent # << >> /\ max_concurrent[1] > 0
                   THEN max_concurrent
                   ELSE << max_concurrent_downloads >>
             /\ semaphore' = max_concurrent'
             /\ max_concurrent'[1] >= 1 ]_vars
    /\ GateWaiting ~> ~ GateWaiting

\* a batch of MaxFiles records ran under the configured limit: every
\* record passed the gate once, every permit is back and the call returned
C25_Witness ==
    /\ main = "returned"
    /\ Len(files) = MaxFiles
    /\ max_concurrent = << max_concurrent_downloads >>
    /\ semaphore = max_concurrent
    /\ \A r \in Recs : attempts[r] = 1

=============================================================================
